---------------------------- MODULE Spec2Model ----------------------------
(***************************************************************************)
(* A model of scripts/analysis/extract_timings.py: the driver-log scan     *)
(* (parse_batch_timing_information), the worker-log scan                   *)
(* (parse_protocol_timing_information) and the per-iteration aggregation   *)
(* (parse_iteration_statistics).                                           *)
(*                                                                         *)
(* Time is counted in whole seconds.  A python dict is a function whose    *)
(* DOMAIN is the dict's key set; where the code depends on the insertion   *)
(* order of a dict the order is kept beside it as a sequence of keys.      *)
(***************************************************************************)
EXTENDS Integers, Sequences, FiniteSets, TLC

(***************************************************************************)
(* Bounds of the model.                                                    *)
(***************************************************************************)
\* Length of a day in the driver log's time-of-day stamps (seconds, scaled).
DayLen == 2
\* Timestamped lines read from the driver log.
MaxDriverLines == 5
\* "Received estimation request" markers in the driver log.
MaxRequests == 2
\* Worker logs under worker-logs/.
MaxWorkerLogs == 2
\* Lines read from one worker log.
MaxWorkerLines == 3
\* Latest timestamp a worker-log line or a file's modification time carries.
MaxWorkerTime == 3
\* Batches in the batch-timing table handed to the aggregation.
MaxBatches == 2
\* Intervals in the protocol-timing table handed to the aggregation.
MaxIntervals == 2
\* Latest time in the tables handed to the aggregation.
MaxTableTime == 2
\* Estimated properties read from the results files of all iterations.
MaxProperties == 2
\* timedelta(hours=5, minutes=59), the assumed lifetime of a worker, scaled to
\* the shortened day.
WorkerLifetime == 1

(***************************************************************************)
(* Program constants.                                                      *)
(***************************************************************************)
\* timedelta(seconds=-1) / timedelta(seconds=1): the margin of a batch.
Pad == 1

\* timedelta(seconds=2): how far the first line may lie after the file's
\* modification time.
Tolerance == 2

None == -1
NoId == "None"

SimulationLayer == "SimulationLayer"
ReweightingLayer == "ReweightingLayer"
\* The two layers a statistics record has a slot for.
RealLayers == {SimulationLayer, ReweightingLayer}
\* Layer names a launch line may carry: the pattern is [a-zA-Z]+.
LayerNames == RealLayers \cup {"OtherLayerA", "OtherLayerB"}
\* Batch ids a driver-log line may carry: the pattern is [0-9a-z]+.
BatchIds == {"b1", "b2"}
\* Protocol ids a worker-log line may carry: the pattern is [0-9a-z|_]+.
ProtocolIds == {"p1", "p2"}
\* Class names of estimated properties.
PropertyTypes == {"Density"}

(***************************************************************************)
(* Dictionaries.                                                           *)
(***************************************************************************)
EmptyDict == [k \in {} |-> 0]

Put(d, k, v) == [x \in (DOMAIN d) \cup {k} |-> IF x = k THEN v ELSE d[x]]

\* d[k] of a defaultdict whose factory yields dflt; the key need not exist.
Lookup(d, k, dflt) == IF k \in DOMAIN d THEN d[k] ELSE dflt

\* The defaultdict after d[k] has been read: a missing key is created.
Touch(d, k, dflt) == IF k \in DOMAIN d THEN d ELSE Put(d, k, dflt)

VARIABLES
    driver_pc,            \* "scan", "returned" or "aborted"
    driver_error,         \* the assertion that aborted the parse, or "none"
    n_lines,              \* timestamped driver-log lines read so far
    launched,             \* the <<iteration, layer, batch id>> of every launch line read
    previous_line_time,   \* None or the resolved time of the last line
    current_iteration,
    batch_start_times,    \* iteration -> layer -> batch id -> time
    start_layer_order,    \* iteration -> layers of batch_start_times in insertion order
    batch_end_times,      \* iteration -> layer -> batch id -> time
    batch_timings         \* iteration -> layer -> batch id -> <<start, end>>

driver_vars == <<driver_pc, driver_error, n_lines, launched, previous_line_time,
                 current_iteration, batch_start_times, start_layer_order,
                 batch_end_times, batch_timings>>

VARIABLES
    worker_pc,             \* "open", "scan", "returned" or "aborted"
    n_files,               \* worker logs read to their end
    file_lines,            \* lines read from the current worker log
    first_time,            \* the timestamp of the current log's first line
    initial_time,
    worker_close_time,
    protocol_started,      \* NoId or the protocol id that is open
    protocol_start_times,  \* protocol id -> time, of the current log
    protocol_end_times,    \* protocol id -> time, of the current log
    per_protocol_timings   \* protocol id -> sequence of <<start, end>>

worker_vars == <<worker_pc, n_files, file_lines, first_time, initial_time,
                 worker_close_time, protocol_started, protocol_start_times,
                 protocol_end_times, per_protocol_timings>>

VARIABLES
    stats_pc,          \* "idle", "next", "tally" (the properties of the iteration are
                       \* read), "attribute", "returned" or "aborted"
    n_iterations,
    iteration,
    n_properties,      \* estimated properties read so far, over all iterations
    statistics,        \* the record of the current iteration
    batch_protocols,   \* fidelity -> batch id -> set of protocol ids
    group_order,       \* the <<fidelity, batch id>> keys of batch_protocols as inserted
    n_groups_done,     \* groups of the current iteration already attributed
    all_statistics,    \* the records appended so far
    original_timings,  \* the protocol-timing table as handed to the aggregation
    timings_at_start,  \* per iteration, the protocol-timing table as it began
    attributed,        \* protocol id -> the intervals added to an attributed time
    unused_times       \* per iteration, its unused_protocol_time

stats_vars == <<stats_pc, n_iterations, iteration, n_properties, statistics,
                batch_protocols, group_order, n_groups_done, all_statistics,
                original_timings, timings_at_start, attributed, unused_times>>

VARIABLES
    written,           \* whether main has opened the output file for writing
    output             \* the records dumped to the output file

main_vars == <<written, output>>

not_driver_vars == <<worker_vars, stats_vars, main_vars>>
not_worker_vars == <<driver_vars, stats_vars, main_vars>>
\* What the aggregation leaves alone: it changes the protocol-timing table.
not_stats_vars == <<driver_vars, worker_pc, n_files, file_lines, first_time,
                    initial_time, worker_close_time, protocol_started,
                    protocol_start_times, protocol_end_times, main_vars>>

vars == <<driver_vars, worker_vars, stats_vars, main_vars>>

(***************************************************************************)
(* parse_batch_timing_information: the scan of the driver log.             *)
(***************************************************************************)
\* Variant of ResolveLineTime that never moves a line to the next day.
ResolveLineTimeSameDay(tod, prev) ==
    IF prev = None THEN tod ELSE (prev \div DayLen) * DayLen + tod

\* The time of day tod read against the date of the previous line; a result
\* earlier than the previous line is moved to the next day.
ResolveLineTime(tod, prev) ==
    IF prev = None
    THEN tod
    ELSE LET t == (prev \div DayLen) * DayLen + tod
         IN  IF t - prev < 0 THEN t + DayLen ELSE t

\* Variant of StartedInSomeLayer that finds no earlier start.
StartedNowhere(starts, it, b) == FALSE

\* any(batch_id in batch_start_times[it][x] for x in batch_start_times[it])
StartedInSomeLayer(starts, it, b) ==
    \E x \in DOMAIN Lookup(starts, it, EmptyDict) : b \in DOMAIN starts[it][x]

\* next(iter(batch_start_times[it])): the layer inserted first.
PreviousLayerType(order, it) == Head(order[it])

\* Variant of QualifyingLayers that forgets to look at the end times.
QualifyingLayersAnyStart(starts, ends, it, b) ==
    {l \in DOMAIN Lookup(starts, it, EmptyDict) : b \in DOMAIN starts[it][l]}

\* The layers of the iteration that hold a start and no end for the batch.
QualifyingLayers(starts, ends, it, b) ==
    {l \in DOMAIN Lookup(starts, it, EmptyDict) :
        /\ b \in DOMAIN starts[it][l]
        /\ b \notin DOMAIN Lookup(Lookup(ends, it, EmptyDict), l, EmptyDict)}

\* The layers [*layer_types][0] may yield: a set has no order of its own.
FinishLayerChoices(layer_types) ==
    IF Cardinality(layer_types) = 2 THEN {ReweightingLayer} ELSE layer_types

\* assert len(layer_types) > 0
FinishAsserts(layer_types) == Cardinality(layer_types) > 0

\* d[it][l][b] = t on a defaultdict of defaultdicts of dicts.
Put3(d, it, l, b, t) ==
    LET dit == Lookup(d, it, EmptyDict)
        dl  == Lookup(dit, l, EmptyDict)
    IN  Put(d, it, Put(dit, l, Put(dl, b, t)))

\* Variant of RecordStart that keeps only the first launch of a batch id.
RecordStartOnce(starts, it, l, b, t) ==
    IF \E x \in DOMAIN Lookup(starts, it, EmptyDict) : b \in DOMAIN starts[it][x]
    THEN starts
    ELSE Put(starts, it,
             Put(Lookup(starts, it, EmptyDict), l,
                 Put(Lookup(Lookup(starts, it, EmptyDict), l, EmptyDict), b, t)))

\* batch_start_times[it][l][b] = t
RecordStart(starts, it, l, b, t) == Put3(starts, it, l, b, t)

\* batch_end_times after the finish line's comprehension has read
\* batch_end_times[it][l] for every layer l that holds a start of b.
EndsAfterLookup(starts, ends, it, b) ==
    LET touched == {l \in DOMAIN Lookup(starts, it, EmptyDict) : b \in DOMAIN starts[it][l]}
        eit     == Lookup(ends, it, EmptyDict)
    IN  IF touched = {}
        THEN ends
        ELSE Put(ends, it, [l \in (DOMAIN eit) \cup touched |-> Lookup(eit, l, EmptyDict)])

\* A timestamped line is read: its time is resolved and kept for the next line.
ReadLine(tod) ==
    /\ driver_pc = "scan"
    /\ n_lines < MaxDriverLines
    /\ n_lines' = n_lines + 1
    /\ previous_line_time' = ResolveLineTime(tod, previous_line_time)
    /\ UNCHANGED not_driver_vars

\* A timestamped line that matches none of the three patterns.
OtherLine(tod) ==
    /\ ReadLine(tod)
    /\ UNCHANGED <<driver_pc, driver_error, launched, current_iteration, batch_start_times,
                   start_layer_order, batch_end_times, batch_timings>>

\* "Received estimation request"
ReceivedLine(tod) ==
    /\ ReadLine(tod)
    /\ current_iteration + 1 < MaxRequests
    /\ current_iteration' = current_iteration + 1
    /\ UNCHANGED <<driver_pc, driver_error, launched, batch_start_times, start_layer_order,
                   batch_end_times, batch_timings>>

\* "Launching batch b using the l"
LaunchLine(tod, b, l) ==
    LET t    == ResolveLineTime(tod, previous_line_time)
        it   == current_iteration
        ends == IF StartedInSomeLayer(batch_start_times, it, b)
                THEN Put3(batch_end_times, it,
                          PreviousLayerType(start_layer_order, it), b, t)
                ELSE batch_end_times
        ord  == Lookup(start_layer_order, it, <<>>)
    IN  /\ ReadLine(tod)
        /\ launched' = launched \cup {<<it, l, b>>}
        /\ batch_end_times' = ends
        /\ batch_start_times' = RecordStart(batch_start_times, it, l, b, t)
        /\ start_layer_order' =
               Put(start_layer_order, it,
                   IF \E i \in 1..Len(ord) : ord[i] = l THEN ord ELSE Append(ord, l))
        /\ UNCHANGED <<driver_pc, driver_error, current_iteration, batch_timings>>

\* "Finished server request b"
FinishLine(tod, b) ==
    LET t           == ResolveLineTime(tod, previous_line_time)
        it          == current_iteration
        layer_types == QualifyingLayers(batch_start_times, batch_end_times, it, b)
    IN  /\ ReadLine(tod)
        /\ IF FinishAsserts(layer_types)
           THEN /\ \E l \in FinishLayerChoices(layer_types) :
                       batch_end_times' =
                           Put3(EndsAfterLookup(batch_start_times, batch_end_times, it, b),
                                it, l, b, t)
                /\ batch_start_times' = Touch(batch_start_times, it, EmptyDict)
                /\ start_layer_order' = Touch(start_layer_order, it, <<>>)
                /\ UNCHANGED <<driver_pc, driver_error>>
           ELSE /\ driver_pc' = "aborted"
                /\ driver_error' = "finish_assert"
                /\ UNCHANGED <<batch_start_times, start_layer_order, batch_end_times>>
        /\ UNCHANGED <<launched, current_iteration, batch_timings>>

(***************************************************************************)
(* parse_batch_timing_information: the final pass.                         *)
(***************************************************************************)
\* assert {*batch_start_times[it]} == {*batch_end_times[it]}
LayerKeysAgree(starts, ends, it) ==
    DOMAIN starts[it] = DOMAIN Lookup(ends, it, EmptyDict)

\* assert {*batch_start_times[it][l]} == {*batch_end_times[it][l]}
BatchKeysAgree(starts, ends, it, l) ==
    DOMAIN starts[it][l] = DOMAIN ends[it][l]

\* Variant of BatchTimesAgree that lets an empty batch pass.
BatchTimesAgreeLoose(batch_start_time, batch_end_time) ==
    batch_end_time >= batch_start_time

\* assert batch_end_time > batch_start_time
BatchTimesAgree(batch_start_time, batch_end_time) ==
    batch_end_time > batch_start_time

\* Variant of PaddedInterval without the margin.
UnpaddedInterval(batch_start_time, batch_end_time) ==
    <<batch_start_time, batch_end_time>>

PaddedInterval(batch_start_time, batch_end_time) ==
    <<batch_start_time - Pad, batch_end_time + Pad>>

\* Whether every assertion of the final pass holds.
FinalPassAsserts(starts, ends) ==
    \A it \in DOMAIN starts :
        /\ LayerKeysAgree(starts, ends, it)
        /\ \A l \in DOMAIN starts[it] :
               /\ BatchKeysAgree(starts, ends, it, l)
               /\ \A b \in DOMAIN starts[it][l] :
                      BatchTimesAgree(starts[it][l][b], ends[it][l][b])

\* The table the final pass builds; a key exists once a batch is stored under it.
ConsolidatedTimings(starts, ends) ==
    [it \in {i \in DOMAIN starts : DOMAIN starts[i] # {}} |->
        [l \in DOMAIN starts[it] |->
            [b \in DOMAIN starts[it][l] |->
                PaddedInterval(starts[it][l][b], ends[it][l][b])]]]

EndOfDriverLog ==
    /\ driver_pc = "scan"
    /\ IF FinalPassAsserts(batch_start_times, batch_end_times)
       THEN /\ driver_pc' = "returned"
            /\ batch_timings' = ConsolidatedTimings(batch_start_times, batch_end_times)
            /\ UNCHANGED driver_error
       ELSE /\ driver_pc' = "aborted"
            /\ driver_error' = "final_assert"
            /\ UNCHANGED batch_timings
    /\ UNCHANGED <<n_lines, launched, previous_line_time, current_iteration,
                   batch_start_times, start_layer_order, batch_end_times>>
    /\ UNCHANGED not_driver_vars

(***************************************************************************)
(* parse_protocol_timing_information: the scan of the worker logs.         *)
(***************************************************************************)
\* The first line's timestamp read against the file's modification time (moved
\* on by two hours already): a first line later than it by more than the
\* tolerance is taken to be of the day before.
InitialTime(first, modified_time) ==
    IF first > modified_time /\ first - modified_time > Tolerance
    THEN first - DayLen
    ELSE first

WorkerCloseTime(initial) == initial + WorkerLifetime

\* The timestamp of a line; one earlier than the first line is moved on a day.
ResolveWorkerTime(stamp, initial) ==
    IF stamp < initial THEN stamp + DayLen ELSE stamp

\* The timestamps line number file_lines + 1 of the current log may carry.
LineStamps == IF file_lines = 0 THEN {first_time} ELSE 0..MaxWorkerTime

OpenWorkerLog(first, modified_time) ==
    /\ worker_pc = "open"
    /\ n_files < MaxWorkerLogs
    /\ worker_pc' = "scan"
    /\ file_lines' = 0
    /\ first_time' = first
    /\ initial_time' = InitialTime(first, modified_time)
    /\ worker_close_time' = WorkerCloseTime(InitialTime(first, modified_time))
    /\ protocol_started' = NoId
    /\ protocol_start_times' = EmptyDict
    /\ protocol_end_times' = EmptyDict
    /\ UNCHANGED <<n_files, per_protocol_timings>>
    /\ UNCHANGED not_worker_vars

\* A log whose first line carries no timestamp: re.match yields None.
OpenMalformedWorkerLog ==
    /\ worker_pc = "open"
    /\ n_files < MaxWorkerLogs
    /\ worker_pc' = "aborted"
    /\ UNCHANGED <<n_files, file_lines, first_time, initial_time, worker_close_time,
                   protocol_started, protocol_start_times, protocol_end_times,
                   per_protocol_timings>>
    /\ UNCHANGED not_worker_vars

ReadWorkerLine ==
    /\ worker_pc = "scan"
    /\ file_lines < MaxWorkerLines
    /\ file_lines' = file_lines + 1
    /\ UNCHANGED <<worker_pc, n_files, first_time, initial_time, worker_close_time,
                   per_protocol_timings>>
    /\ UNCHANGED not_worker_vars

\* Variant of AcceptsOpen that lets every "Executing" line open its protocol.
AcceptsOpenAlways(started) == TRUE

\* Whether an "Executing" line opens its protocol.
AcceptsOpen(started) == started = NoId

\* Whether a close line for protocol_id is recorded.
AcceptsClose(started, protocol_id) ==
    ~(started # NoId /\ protocol_id # started)

\* "Executing protocol_id"
ExecutingLine(stamp, protocol_id) ==
    /\ ReadWorkerLine
    /\ stamp \in LineStamps
    /\ IF AcceptsOpen(protocol_started)
       THEN /\ protocol_started' = protocol_id
            /\ protocol_start_times' =
                   Put(protocol_start_times, protocol_id,
                       ResolveWorkerTime(stamp, initial_time))
       ELSE UNCHANGED <<protocol_started, protocol_start_times>>
    /\ UNCHANGED protocol_end_times

CloseLine(stamp, protocol_id) ==
    /\ ReadWorkerLine
    /\ stamp \in LineStamps
    /\ IF AcceptsClose(protocol_started, protocol_id)
       THEN /\ protocol_started' = NoId
            /\ protocol_end_times' =
                   Put(protocol_end_times, protocol_id,
                       ResolveWorkerTime(stamp, initial_time))
       ELSE UNCHANGED <<protocol_started, protocol_end_times>>
    /\ UNCHANGED protocol_start_times

\* "protocol_id finished executing after ... ms"
FinishedLine(stamp, protocol_id) == CloseLine(stamp, protocol_id)

\* "Protocol failed to execute: protocol_id"
FailedLine(stamp, protocol_id) == CloseLine(stamp, protocol_id)

\* A line that matches none of the three patterns.
OtherWorkerLine ==
    /\ ReadWorkerLine
    /\ UNCHANGED <<protocol_started, protocol_start_times, protocol_end_times>>

\* Variant of FileInterval that always ends at the estimated shutdown time.
FileIntervalToClose(starts, ends, close_time, protocol_id) ==
    <<starts[protocol_id], close_time>>

\* The interval the end of a log appends for protocol_id.
FileInterval(starts, ends, close_time, protocol_id) ==
    <<starts[protocol_id], Lookup(ends, protocol_id, close_time)>>

\* Variant of AppendFileIntervals that drops a protocol without a recorded end.
AppendClosedFileIntervals(timings, starts, ends, close_time) ==
    [p \in (DOMAIN timings) \cup ((DOMAIN starts) \cap (DOMAIN ends)) |->
        IF p \in (DOMAIN starts) \cap (DOMAIN ends)
        THEN Append(Lookup(timings, p, <<>>), <<starts[p], ends[p]>>)
        ELSE timings[p]]

\* per_protocol_timings after the interval of every started protocol is appended.
AppendFileIntervals(timings, starts, ends, close_time) ==
    [p \in (DOMAIN timings) \cup (DOMAIN starts) |->
        IF p \in DOMAIN starts
        THEN Append(Lookup(timings, p, <<>>), FileInterval(starts, ends, close_time, p))
        ELSE timings[p]]

EndOfWorkerLog ==
    /\ worker_pc = "scan"
    /\ file_lines >= 1
    /\ worker_pc' = "open"
    /\ n_files' = n_files + 1
    /\ per_protocol_timings' =
           AppendFileIntervals(per_protocol_timings, protocol_start_times,
                               protocol_end_times, worker_close_time)
    /\ UNCHANGED <<file_lines, first_time, initial_time, worker_close_time,
                   protocol_started, protocol_start_times, protocol_end_times>>
    /\ UNCHANGED not_worker_vars

\* glob("worker-logs/*.log") is exhausted.
EndOfWorkerLogs ==
    /\ worker_pc = "open"
    /\ worker_pc' = "returned"
    /\ UNCHANGED <<n_files, file_lines, first_time, initial_time, worker_close_time,
                   protocol_started, protocol_start_times, protocol_end_times,
                   per_protocol_timings>>
    /\ UNCHANGED not_worker_vars

\* The locals of the worker-log scan before its first log.
WorkerLocalsInit ==
    /\ n_files = 0
    /\ file_lines = 0
    /\ first_time = 0
    /\ initial_time = 0
    /\ worker_close_time = 0
    /\ protocol_started = NoId
    /\ protocol_start_times = EmptyDict
    /\ protocol_end_times = EmptyDict

WorkerInit ==
    /\ worker_pc = "open"
    /\ WorkerLocalsInit
    /\ per_protocol_timings = EmptyDict

WorkerNext ==
    \/ \E first \in 0..MaxWorkerTime, modified_time \in 0..MaxWorkerTime :
           OpenWorkerLog(first, modified_time)
    \/ OpenMalformedWorkerLog
    \/ \E stamp \in 0..MaxWorkerTime, p \in ProtocolIds : ExecutingLine(stamp, p)
    \/ \E stamp \in 0..MaxWorkerTime, p \in ProtocolIds : FinishedLine(stamp, p)
    \/ \E stamp \in 0..MaxWorkerTime, p \in ProtocolIds : FailedLine(stamp, p)
    \/ OtherWorkerLine
    \/ EndOfWorkerLog
    \/ EndOfWorkerLogs

\* The locals of the driver-log scan before its first line.
DriverLocalsInit ==
    /\ driver_error = "none"
    /\ n_lines = 0
    /\ launched = {}
    /\ previous_line_time = None
    /\ current_iteration = -1
    /\ batch_start_times = EmptyDict
    /\ start_layer_order = EmptyDict
    /\ batch_end_times = EmptyDict

DriverInit ==
    /\ driver_pc = "scan"
    /\ DriverLocalsInit
    /\ batch_timings = EmptyDict

DriverNext ==
    \/ \E tod \in 0..(DayLen - 1) : OtherLine(tod)
    \/ \E tod \in 0..(DayLen - 1) : ReceivedLine(tod)
    \/ \E tod \in 0..(DayLen - 1), b \in BatchIds, l \in LayerNames : LaunchLine(tod, b, l)
    \/ \E tod \in 0..(DayLen - 1), b \in BatchIds : FinishLine(tod, b)
    \/ EndOfDriverLog

(***************************************************************************)
(* parse_iteration_statistics.                                             *)
(***************************************************************************)
RECURSIVE SumDurations(_)
\* The sum of (end - start).total_seconds() over a list of intervals.
SumDurations(times) ==
    IF times = <<>> THEN 0
    ELSE (Head(times)[2] - Head(times)[1]) + SumDurations(Tail(times))

\* Variant of Within that looks at the start of the interval alone.
WithinStartOnly(protocol_time, lo, hi) ==
    ~ \/ protocol_time[1] < lo
      \/ protocol_time[1] > hi

\* The negation of the test that skips a protocol interval: both of its ends
\* lie within [lo, hi].
Within(protocol_time, lo, hi) ==
    ~ \/ protocol_time[1] < lo
      \/ protocol_time[1] > hi
      \/ protocol_time[2] < lo
      \/ protocol_time[2] > hi

\* The intervals of a list that lie within [lo, hi], in the list's order.
TimesWithin(times, lo, hi) ==
    SelectSeq(times, LAMBDA x : Within(x, lo, hi))

RECURSIVE RemoveFirst(_, _)
\* list.remove(x): the list without its first element equal to x.
RemoveFirst(times, x) ==
    IF times = <<>> THEN <<>>
    ELSE IF Head(times) = x THEN Tail(times)
    ELSE <<Head(times)>> \o RemoveFirst(Tail(times), x)

RECURSIVE RemoveEach(_, _)
\* for time_to_remove in times_to_remove: protocol_times.remove(time_to_remove)
RemoveEach(times, times_to_remove) ==
    IF times_to_remove = <<>> THEN times
    ELSE RemoveEach(RemoveFirst(times, Head(times_to_remove)), Tail(times_to_remove))

\* The statistics record an iteration starts with.
NewStatistics ==
    [approach_counts |-> [l \in RealLayers |-> 0],
     approach_counts_per_property |-> [l \in RealLayers |-> EmptyDict],
     time_per_approach |-> [l \in RealLayers |-> 0]]

\* The record after a property of the fidelity and class name is tallied.
Tally(stat, fidelity, type) ==
    [stat EXCEPT
        !.approach_counts[fidelity] = @ + 1,
        !.approach_counts_per_property[fidelity] = Put(@, type, Lookup(@, type, 0) + 1)]

\* The order in which the groups of batch_protocols are visited: fidelity by
\* fidelity as first inserted, the batch ids of a fidelity as first inserted.
GroupSequence(order) ==
    IF order = <<>> THEN <<>>
    ELSE SelectSeq(order, LAMBDA g : g[1] = order[1][1])
         \o SelectSeq(order, LAMBDA g : g[1] # order[1][1])

\* The interval of every batch of an iteration.
IterationIntervals(timings, it) ==
    LET layers == Lookup(timings, it, EmptyDict)
    IN  UNION {{layers[l][b] : b \in DOMAIN layers[l]} : l \in DOMAIN layers}

Min(S) == CHOOSE x \in S : \A y \in S : x <= y
Max(S) == CHOOSE x \in S : \A y \in S : x >= y

IterationStartTime(timings, it) == Min({x[1] : x \in IterationIntervals(timings, it)})
IterationEndTime(timings, it) == Max({x[2] : x \in IterationIntervals(timings, it)})

RECURSIVE SumOverIds(_, _, _, _)
\* The summed duration of the intervals of the protocol ids that lie within [lo, hi].
SumOverIds(timings, ids, lo, hi) ==
    IF ids = {} THEN 0
    ELSE LET p == CHOOSE x \in ids : TRUE
         IN  SumDurations(TimesWithin(timings[p], lo, hi))
             + SumOverIds(timings, ids \ {p}, lo, hi)

\* unused_protocol_time of an iteration.
UnusedProtocolTime(timings, lo, hi) == SumOverIds(timings, DOMAIN timings, lo, hi)

\* Variant of TotalTime that leaves the reweighted time out.
TotalTimeSimulationOnly(unused, time_per_approach) ==
    unused + time_per_approach[SimulationLayer]

\* total_time of a record.
TotalTime(unused, time_per_approach) ==
    unused + time_per_approach[SimulationLayer] + time_per_approach[ReweightingLayer]

\* Variant of TimingsAfterGroup that removes nothing.
TimingsAfterGroupKept(timings, ids, lo, hi) ==
    [p \in (DOMAIN timings) \cup ids |-> Lookup(timings, p, <<>>)]

\* The protocol-timing table after the group's protocol ids have been looked
\* up and the intervals within the batch removed from their lists.
TimingsAfterGroup(timings, ids, lo, hi) ==
    [p \in (DOMAIN timings) \cup ids |->
        IF p \in ids
        THEN RemoveEach(Lookup(timings, p, <<>>),
                        TimesWithin(Lookup(timings, p, <<>>), lo, hi))
        ELSE timings[p]]

\* approach_time of a group.
ApproachTime(timings, ids, lo, hi) ==
    SumOverIds([p \in ids |-> Lookup(timings, p, <<>>)], ids, lo, hi)

StartStatistics ==
    /\ stats_pc = "idle"
    /\ driver_pc = "returned"
    /\ worker_pc = "returned"
    /\ stats_pc' = "next"
    /\ n_iterations' = Cardinality(DOMAIN batch_timings)
    /\ iteration' = 0
    /\ original_timings' = per_protocol_timings
    /\ UNCHANGED <<n_properties, statistics, batch_protocols, group_order,
                   n_groups_done, all_statistics, timings_at_start, attributed,
                   unused_times, per_protocol_timings>>
    /\ UNCHANGED not_stats_vars

\* The results of the next iteration are loaded.
BeginIteration ==
    /\ stats_pc = "next"
    /\ iteration < n_iterations
    /\ stats_pc' = "tally"
    /\ statistics' = NewStatistics
    /\ batch_protocols' = EmptyDict
    /\ group_order' = <<>>
    /\ n_groups_done' = 0
    /\ timings_at_start' = Append(timings_at_start, per_protocol_timings)
    /\ UNCHANGED <<n_iterations, iteration, n_properties, all_statistics,
                   original_timings, attributed, unused_times, per_protocol_timings>>
    /\ UNCHANGED not_stats_vars

\* An exception leaves the function: the locals of the iteration are gone.
AbortStatistics ==
    /\ stats_pc' = "aborted"
    /\ statistics' = NewStatistics
    /\ batch_protocols' = EmptyDict
    /\ group_order' = <<>>
    /\ n_groups_done' = 0
    /\ UNCHANGED <<n_iterations, iteration, n_properties, all_statistics,
                   original_timings, timings_at_start, attributed, unused_times,
                   per_protocol_timings>>
    /\ UNCHANGED not_stats_vars

\* One estimated property of a fidelity the record has a slot for, whose
\* provenance holds the protocol ids and resolves to the batch id.
TallyProperty(fidelity, type, batch_id, protocol_ids) ==
    /\ stats_pc = "tally"
    /\ n_properties < MaxProperties
    /\ n_properties' = n_properties + 1
    /\ statistics' = Tally(statistics, fidelity, type)
    /\ batch_protocols' =
           Put(batch_protocols, fidelity,
               Put(Lookup(batch_protocols, fidelity, EmptyDict), batch_id,
                   Lookup(Lookup(batch_protocols, fidelity, EmptyDict),
                          batch_id, {}) \cup protocol_ids))
    /\ group_order' =
           IF \E i \in 1..Len(group_order) : group_order[i] = <<fidelity, batch_id>>
           THEN group_order
           ELSE Append(group_order, <<fidelity, batch_id>>)
    /\ UNCHANGED <<stats_pc, n_iterations, iteration, n_groups_done, all_statistics,
                   original_timings, timings_at_start, attributed, unused_times,
                   per_protocol_timings>>
    /\ UNCHANGED not_stats_vars

\* A property of a fidelity the record has no slot for: a KeyError.
TallyUnknownFidelity ==
    /\ stats_pc = "tally"
    /\ n_properties < MaxProperties
    /\ AbortStatistics

\* A property whose provenance resolves to no batch id: extract_batch_id fails.
TallyUnresolvedProperty ==
    /\ stats_pc = "tally"
    /\ n_properties < MaxProperties
    /\ AbortStatistics

\* The next group of batch_protocols is matched against the protocol intervals.
AttributeGroup ==
    /\ stats_pc \in {"tally", "attribute"}
    /\ n_groups_done < Len(group_order)
    /\ LET group    == GroupSequence(group_order)[n_groups_done + 1]
           fidelity == group[1]
           batch_id == group[2]
           ids      == batch_protocols[fidelity][batch_id]
           layers   == Lookup(batch_timings, iteration, EmptyDict)
       IN  IF batch_id \in DOMAIN Lookup(layers, fidelity, EmptyDict)
           THEN LET lo == layers[fidelity][batch_id][1]
                    hi == layers[fidelity][batch_id][2]
                IN  /\ statistics' =
                           [statistics EXCEPT !.time_per_approach[fidelity] =
                               @ + ApproachTime(per_protocol_timings, ids, lo, hi)]
                    /\ per_protocol_timings' =
                           TimingsAfterGroup(per_protocol_timings, ids, lo, hi)
                    /\ attributed' =
                           [p \in ProtocolIds |->
                               IF p \in ids
                               THEN attributed[p]
                                    \o TimesWithin(Lookup(per_protocol_timings, p, <<>>),
                                                   lo, hi)
                               ELSE attributed[p]]
                    /\ n_groups_done' = n_groups_done + 1
                    /\ stats_pc' = "attribute"
                    /\ UNCHANGED <<n_iterations, iteration, n_properties,
                                   batch_protocols, group_order, all_statistics,
                                   original_timings, timings_at_start, unused_times>>
                    /\ UNCHANGED not_stats_vars
           ELSE AbortStatistics

\* The record is appended, the unused time and the total time are computed.
FinishIteration ==
    /\ stats_pc \in {"tally", "attribute"}
    /\ n_groups_done = Len(group_order)
    /\ IF IterationIntervals(batch_timings, iteration) # {}
       THEN LET lo     == IterationStartTime(batch_timings, iteration)
                hi     == IterationEndTime(batch_timings, iteration)
                unused == UnusedProtocolTime(per_protocol_timings, lo, hi)
            IN  /\ all_statistics' =
                       Append(all_statistics,
                              Put(statistics, "total_time",
                                  TotalTime(unused, statistics.time_per_approach)))
                /\ unused_times' = Append(unused_times, unused)
                /\ iteration' = iteration + 1
                /\ stats_pc' = "next"
                /\ UNCHANGED <<n_iterations, n_properties, statistics, batch_protocols,
                               group_order, n_groups_done, original_timings,
                               timings_at_start, attributed, per_protocol_timings>>
                /\ UNCHANGED not_stats_vars
       ELSE AbortStatistics

ReturnStatistics ==
    /\ stats_pc = "next"
    /\ iteration = n_iterations
    /\ stats_pc' = "returned"
    /\ UNCHANGED <<n_iterations, iteration, n_properties, statistics, batch_protocols,
                   group_order, n_groups_done, all_statistics, original_timings,
                   timings_at_start, attributed, unused_times, per_protocol_timings>>
    /\ UNCHANGED not_stats_vars

StatsInit ==
    /\ stats_pc = "idle"
    /\ n_iterations = 0
    /\ iteration = 0
    /\ n_properties = 0
    /\ statistics = NewStatistics
    /\ batch_protocols = EmptyDict
    /\ group_order = <<>>
    /\ n_groups_done = 0
    /\ all_statistics = <<>>
    /\ original_timings = EmptyDict
    /\ timings_at_start = <<>>
    /\ attributed = [p \in ProtocolIds |-> <<>>]
    /\ unused_times = <<>>

StatsNext ==
    \/ StartStatistics
    \/ BeginIteration
    \/ \E f \in RealLayers, ty \in PropertyTypes, b \in BatchIds,
          ids \in (SUBSET ProtocolIds) \ {{}} : TallyProperty(f, ty, b, ids)
    \/ TallyUnknownFidelity
    \/ TallyUnresolvedProperty
    \/ AttributeGroup
    \/ FinishIteration
    \/ ReturnStatistics

(***************************************************************************)
(* main: the two scans, the aggregation, then the output file.             *)
(***************************************************************************)
MainInit ==
    /\ written = FALSE
    /\ output = <<>>

\* Variant of MayWrite that also writes what an aborted aggregation left.
MayWriteAfterAbort == stats_pc \in {"returned", "aborted"}

\* The with block of main has been left without an exception.
MayWrite == stats_pc = "returned"

\* json.dump(iteration_statistics, file)
WriteOutput ==
    /\ MayWrite
    /\ ~written
    /\ written' = TRUE
    /\ output' = all_statistics
    /\ UNCHANGED <<driver_vars, worker_vars, stats_vars>>

Init == DriverInit /\ WorkerInit /\ StatsInit /\ MainInit

(***************************************************************************)
(* The tables the two scans hand to the aggregation.                       *)
(***************************************************************************)
\* A batch of the table: its key and the times recorded for it. The times
\* begin a second after those of the protocol intervals, so that a padded
\* batch does not hold every protocol interval.
BatchEntries ==
    [it : 0..(MaxRequests - 1), layer : RealLayers, batch : BatchIds,
     start : 1..(MaxTableTime + 1), end : 1..(MaxTableTime + 1)]

\* Batches the driver-log scan can return together: every batch passes the
\* final pass, the iterations are 0..n-1, the times of an iteration are not
\* later than those of the next, and a batch id that two layers of an
\* iteration share is closed under the one before it is started under the other.
BatchesAgree(es) ==
    /\ \A i \in DOMAIN es : BatchTimesAgree(es[i].start, es[i].end)
    /\ \A i, j \in DOMAIN es :
          i # j => <<es[i].it, es[i].layer, es[i].batch>>
                   # <<es[j].it, es[j].layer, es[j].batch>>
    /\ {es[i].it : i \in DOMAIN es} = 0..(Cardinality({es[i].it : i \in DOMAIN es}) - 1)
    /\ \A i, j \in DOMAIN es : es[i].it < es[j].it => es[i].end <= es[j].start
    /\ \A i, j \in DOMAIN es :
          (i # j /\ es[i].it = es[j].it /\ es[i].batch = es[j].batch) =>
              (es[i].end <= es[j].start \/ es[j].end <= es[i].start)

\* The table the final pass of the driver-log scan builds for the batches.
BatchTableOf(es) ==
    [it \in {es[i].it : i \in DOMAIN es} |->
        [l \in {es[i].layer : i \in {j \in DOMAIN es : es[j].it = it}} |->
            [b \in {es[i].batch : i \in {j \in DOMAIN es :
                                            es[j].it = it /\ es[j].layer = l}} |->
                LET e == es[CHOOSE i \in DOMAIN es :
                                es[i].it = it /\ es[i].layer = l /\ es[i].batch = b]
                IN  PaddedInterval(e.start, e.end)]]]

\* An interval of the table: its protocol id and the two times appended, the
\* end before or after the start.
ProtocolEntries ==
    {e \in [id : ProtocolIds, start : 0..MaxTableTime, end : 0..MaxTableTime] :
        e.start # e.end}

\* The table the worker-log scan builds when it appends the entries in order.
ProtocolTableOf(es) ==
    [p \in {es[i].id : i \in DOMAIN es} |->
        LET mine == SelectSeq(es, LAMBDA e : e.id = p)
        IN  [i \in 1..Len(mine) |-> <<mine[i].start, mine[i].end>>]]

\* Both scans have returned.
InitStats ==
    /\ DriverLocalsInit /\ WorkerLocalsInit /\ StatsInit /\ MainInit
    /\ \E k \in 1..MaxBatches : \E es \in [1..k -> BatchEntries] :
          /\ BatchesAgree(es)
          /\ batch_timings = BatchTableOf(es)
    /\ \E k \in 0..MaxIntervals : \E es \in [1..k -> ProtocolEntries] :
          per_protocol_timings = ProtocolTableOf(es)
    /\ driver_pc = "returned"
    /\ worker_pc = "returned"

\* The driver-log scan alone.
SpecBatch == Init /\ [][DriverNext]_vars

\* The worker-log scan alone.
SpecProto == Init /\ [][WorkerNext]_vars

\* The aggregation alone, over the tables the scans can return.
SpecStats == InitStats /\ [][StatsNext]_vars

\* The batch and the protocol of the runs of main that are followed from the
\* first log line to the output file.
MainBatch == "b1"
MainProtocol == "p1"
\* Timestamps of the worker-log lines of those runs.
MainStamps == 0..1

\* main: parse_batch_timing_information, then parse_protocol_timing_information
\* on one worker log, then parse_iteration_statistics, then the output file.
MainNext ==
    \/ \E tod \in 0..(DayLen - 1) : ReceivedLine(tod)
    \/ \E tod \in 0..(DayLen - 1), l \in RealLayers : LaunchLine(tod, MainBatch, l)
    \/ \E tod \in 0..(DayLen - 1) : FinishLine(tod, MainBatch)
    \/ EndOfDriverLog
    \/ driver_pc = "returned" /\ n_files = 0 /\ OpenWorkerLog(0, 0)
    \/ driver_pc = "returned" /\ n_files = 0 /\ OpenMalformedWorkerLog
    \/ \E stamp \in MainStamps : ExecutingLine(stamp, MainProtocol)
    \/ \E stamp \in MainStamps : FinishedLine(stamp, MainProtocol)
    \/ EndOfWorkerLog
    \/ driver_pc = "returned" /\ EndOfWorkerLogs
    \/ StartStatistics
    \/ BeginIteration
    \/ \E f \in RealLayers, ty \in PropertyTypes :
          TallyProperty(f, ty, MainBatch, {MainProtocol})
    \/ TallyUnknownFidelity
    \/ AttributeGroup
    \/ FinishIteration
    \/ ReturnStatistics
    \/ WriteOutput

\* A run of main.
SpecMain == Init /\ [][MainNext]_vars

(***************************************************************************)
(* Properties of the driver-log scan.                                      *)
(***************************************************************************)
\* The <<iteration, layer, batch id>> keys of a three-level table.
Triples(tbl) ==
    UNION {UNION {{<<it, l, b>> : b \in DOMAIN tbl[it][l]} : l \in DOMAIN tbl[it]} :
           it \in DOMAIN tbl}

HasEntry(tbl, it, l, b) ==
    /\ it \in DOMAIN tbl
    /\ l \in DOMAIN tbl[it]
    /\ b \in DOMAIN tbl[it][l]

\* The layers of the current iteration under which b has a start and no end.
OpenLayers(b) ==
    {l \in LayerNames : /\ HasEntry(batch_start_times, current_iteration, l, b)
                        /\ ~HasEntry(batch_end_times, current_iteration, l, b)}

\* C6: when the batch parse returns, every stored interval is (recorded start
\* minus one second, recorded end plus one second) with the recorded end
\* strictly later than the recorded start; a batch whose recorded end is not
\* later than its start aborts the parse, and an aborted parse stores nothing.
C6_BatchIntervalsValidAndPadded ==
    /\ Triples(batch_timings) # {} => driver_pc = "returned"
    /\ driver_pc = "returned" =>
          /\ Triples(batch_timings) = Triples(batch_start_times)
          /\ \A tr \in Triples(batch_start_times) :
                /\ HasEntry(batch_end_times, tr[1], tr[2], tr[3])
                /\ batch_end_times[tr[1]][tr[2]][tr[3]] > batch_start_times[tr[1]][tr[2]][tr[3]]
                /\ batch_timings[tr[1]][tr[2]][tr[3]] =
                       <<batch_start_times[tr[1]][tr[2]][tr[3]] - 1,
                         batch_end_times[tr[1]][tr[2]][tr[3]] + 1>>

\* The parse has returned a table with two batches of different length.
C6_Witness ==
    /\ driver_pc = "returned"
    /\ \E t1, t2 \in Triples(batch_timings) :
          /\ t1 # t2
          /\ batch_timings[t1[1]][t1[2]][t1[3]][2] - batch_timings[t1[1]][t1[2]][t1[3]][1] = 3
          /\ batch_timings[t2[1]][t2[2]][t2[3]][2] - batch_timings[t2[1]][t2[2]][t2[3]][1] > 3

\* C7: the batch parse either aborts or returns a table that holds an interval
\* for exactly the (iteration, layer, batch id) triples of the launch lines
\* read, each of which has an end time recorded under its own layer.
C7_StartEndConsistency ==
    driver_pc = "returned" =>
        /\ Triples(batch_timings) = launched
        /\ \A tr \in launched : HasEntry(batch_end_times, tr[1], tr[2], tr[3])

\* The parse has returned for a log that launched one batch id under two
\* layers of an iteration that follows a request marker.
C7_Witness ==
    /\ driver_pc = "returned"
    /\ \E t1, t2 \in launched :
          /\ t1[1] = t2[1] /\ t1[3] = t2[3] /\ t1[2] # t2[2]
          /\ t1[1] >= 0

\* C8: a finish line for a batch id that no layer of the current iteration
\* holds a start without an end for aborts the parse and records no end time.
C8_FinishWithoutOpenLaunchIsFatal ==
    [][\A tod \in 0..(DayLen - 1), b \in BatchIds :
          (FinishLine(tod, b) /\ OpenLayers(b) = {}) =>
              /\ driver_pc' = "aborted"
              /\ batch_end_times' = batch_end_times]_vars

\* A finish line has aborted the parse in an iteration that follows one with
\* a launch, and in which a batch has been launched and finished before.
C8_Witness ==
    /\ driver_error = "finish_assert"
    /\ current_iteration >= 0
    /\ \E tr \in launched : tr[1] < current_iteration
    /\ \E tr \in launched :
          tr[1] = current_iteration /\ HasEntry(batch_end_times, tr[1], tr[2], tr[3])

\* C9: a finish line for a batch id that more than two layers of the current
\* iteration hold a start without an end for aborts the parse and records no
\* end time.
C9_AmbiguousFinishIsFatal ==
    [][\A tod \in 0..(DayLen - 1), b \in BatchIds :
          (FinishLine(tod, b) /\ Cardinality(OpenLayers(b)) > 2) =>
              /\ driver_pc' = "aborted"
              /\ batch_end_times' = batch_end_times]_vars

\* b is open under SimulationLayer alone in the current iteration.
OpenUnderSimulationOnly(b) ==
    /\ OpenLayers(b) = {SimulationLayer}
    /\ \A l \in LayerNames \ {SimulationLayer} :
          /\ ~HasEntry(batch_start_times, current_iteration, l, b)
          /\ ~HasEntry(batch_end_times, current_iteration, l, b)

\* C10: in an iteration that launches b under SimulationLayer at t1, then under
\* ReweightingLayer at t2 > t1 and then finishes b at t3 > t2, the second launch
\* records the end t2 under SimulationLayer and the start t2 under
\* ReweightingLayer, and the finish records the end t3 under ReweightingLayer.
C10_DualLayerBatchId ==
    [][\A tod \in 0..(DayLen - 1), b \in BatchIds :
          LET it == current_iteration
              t  == ResolveLineTime(tod, previous_line_time)
          IN  /\ ( /\ LaunchLine(tod, b, ReweightingLayer)
                   /\ OpenUnderSimulationOnly(b)
                   /\ t > batch_start_times[it][SimulationLayer][b] ) =>
                      /\ HasEntry(batch_end_times', it, SimulationLayer, b)
                      /\ batch_end_times'[it][SimulationLayer][b] = t
                      /\ batch_start_times'[it][SimulationLayer][b] =
                             batch_start_times[it][SimulationLayer][b]
                      /\ batch_start_times'[it][ReweightingLayer][b] = t
                      /\ ~HasEntry(batch_end_times', it, ReweightingLayer, b)
              /\ ( /\ FinishLine(tod, b)
                   /\ OpenLayers(b) = {ReweightingLayer}
                   /\ HasEntry(batch_start_times, it, SimulationLayer, b)
                   /\ HasEntry(batch_end_times, it, SimulationLayer, b)
                   /\ batch_end_times[it][SimulationLayer][b] =
                          batch_start_times[it][ReweightingLayer][b]
                   /\ t > batch_start_times[it][ReweightingLayer][b] ) =>
                      /\ driver_pc' = "scan"
                      /\ batch_end_times'[it][ReweightingLayer][b] = t
                      /\ batch_end_times'[it][SimulationLayer][b] =
                             batch_end_times[it][SimulationLayer][b]]_vars

\* C16: a launch line for batch b and layer l, read while b has a start and
\* no end under another layer of the current iteration, records its time as
\* the end of b under that other layer and as the start of b under l.
C16_LaunchClosesOpenLayer ==
    [][\A tod \in 0..(DayLen - 1), b \in BatchIds, l \in LayerNames :
          LaunchLine(tod, b, l) =>
              \A other \in OpenLayers(b) \ {l} :
                  /\ HasEntry(batch_end_times', current_iteration, other, b)
                  /\ batch_end_times'[current_iteration][other][b] =
                         ResolveLineTime(tod, previous_line_time)
                  /\ batch_start_times'[current_iteration][l][b] =
                         ResolveLineTime(tod, previous_line_time)]_vars

\* C17: a launch line for batch b and layer l, read while b has no start
\* without an end under another layer of the current iteration, changes no
\* end time; and no launch line changes an end time that is recorded already.
C17_LaunchKeepsEndTimes ==
    [][\A tod \in 0..(DayLen - 1), b \in BatchIds, l \in LayerNames :
          LaunchLine(tod, b, l) =>
              /\ (OpenLayers(b) \ {l} = {}) =>
                     Triples(batch_end_times') = Triples(batch_end_times)
              /\ \A tr \in Triples(batch_end_times) :
                     /\ HasEntry(batch_end_times', tr[1], tr[2], tr[3])
                     /\ batch_end_times'[tr[1]][tr[2]][tr[3]] =
                            batch_end_times[tr[1]][tr[2]][tr[3]]]_vars

\* The layers of iteration it under which b has a start and no end.
OpenLayersOf(it, b) ==
    {l \in LayerNames : /\ HasEntry(batch_start_times, it, l, b)
                        /\ ~HasEntry(batch_end_times, it, l, b)}

\* C20: while every launch line read names SimulationLayer or
\* ReweightingLayer, no batch id has a start and no end under both layers of
\* an iteration: at most one layer qualifies for a finish line.
C20_NoTwoQualifyingRealLayers ==
    (\A tr \in launched : tr[2] \in RealLayers) =>
        \A it \in DOMAIN batch_start_times, b \in BatchIds :
            Cardinality(OpenLayersOf(it, b)) <= 1

\* Launch lines of the two layers alone have given a batch id a start under
\* both layers of an iteration, and another batch was launched before it.
C20_Witness ==
    /\ \A tr \in launched : tr[2] \in RealLayers
    /\ \E it \in DOMAIN batch_start_times, b \in BatchIds :
          /\ \A l \in RealLayers : HasEntry(batch_start_times, it, l, b)
          /\ Cardinality(OpenLayersOf(it, b)) = 1
          /\ \E c \in BatchIds \ {b} : <<it, Head(start_layer_order[it]), c>> \in launched

\* C11: a timestamped line that follows another resolves to a time that is
\* not earlier than the time of the line before it, that keeps the time of day
\* read and lies less than a day after it, and that is strictly later when
\* the two times of day differ.
C11_RolloverCorrection ==
    [][\A tod \in 0..(DayLen - 1) :
          (ReadLine(tod) /\ previous_line_time # None) =>
              /\ previous_line_time' >= previous_line_time
              /\ previous_line_time' - previous_line_time < DayLen
              /\ previous_line_time' % DayLen = tod
              /\ (tod # previous_line_time % DayLen =>
                      previous_line_time' > previous_line_time)]_vars

\* The lines read so far have crossed two midnights.
C11_Witness ==
    /\ previous_line_time # None
    /\ previous_line_time >= 2 * DayLen
    /\ n_lines >= 4

(***************************************************************************)
(* Properties of the aggregation.                                          *)
(***************************************************************************)
\* How often an interval occurs in a list.
Count(times, x) == Cardinality({i \in 1..Len(times) : times[i] = x})

\* The intervals of a list.
Elements(times) == {times[i] : i \in 1..Len(times)}

RECURSIVE DurationInSpan(_, _, _)
\* The summed duration of the intervals of a list with both ends in [lo, hi].
DurationInSpan(times, lo, hi) ==
    IF times = <<>> THEN 0
    ELSE (IF /\ lo <= Head(times)[1] /\ Head(times)[1] <= hi
             /\ lo <= Head(times)[2] /\ Head(times)[2] <= hi
          THEN Head(times)[2] - Head(times)[1]
          ELSE 0)
         + DurationInSpan(Tail(times), lo, hi)

RECURSIVE TableDurationInSpan(_, _, _, _)
TableDurationInSpan(timings, ids, lo, hi) ==
    IF ids = {} THEN 0
    ELSE LET p == CHOOSE x \in ids : TRUE
         IN  DurationInSpan(timings[p], lo, hi)
             + TableDurationInSpan(timings, ids \ {p}, lo, hi)

\* The summed duration of the intervals of a table that lie within the span
\* of iteration it.
DurationInIteration(timings, it) ==
    TableDurationInSpan(timings, DOMAIN timings,
                        IterationStartTime(batch_timings, it),
                        IterationEndTime(batch_timings, it))

\* The attributed time of record number i, over both layers.
AttributedTime(i) ==
    all_statistics[i].time_per_approach[SimulationLayer]
    + all_statistics[i].time_per_approach[ReweightingLayer]

\* C1: every interval of the protocol-timing table is attributed at most once
\* over the whole run: each occurrence of an interval handed to the
\* aggregation is either still in its protocol's list or has been added to
\* an attributed time and removed from the list, never both and never twice.
C1_ConsumeOnce ==
    stats_pc # "idle" =>
        \A p \in ProtocolIds :
            \A x \in Elements(attributed[p])
                     \cup Elements(Lookup(per_protocol_timings, p, <<>>))
                     \cup Elements(Lookup(original_timings, p, <<>>)) :
                Count(attributed[p], x) + Count(Lookup(per_protocol_timings, p, <<>>), x)
                    = Count(Lookup(original_timings, p, <<>>), x)

\* Two groups of an iteration that share a protocol id have been attributed,
\* the batches of both hold the one interval of that id, and the interval has
\* been attributed.
C1_Witness ==
    /\ stats_pc = "attribute"
    /\ n_groups_done = 2
    /\ \E p \in ProtocolIds :
          /\ Len(Lookup(original_timings, p, <<>>)) = 1
          /\ Len(attributed[p]) = 1
          /\ \A i \in 1..2 :
                LET g == group_order[i]
                    b == batch_timings[iteration][g[1]][g[2]]
                IN  /\ p \in batch_protocols[g[1]][g[2]]
                    /\ b[1] <= original_timings[p][1][1]
                    /\ original_timings[p][1][1] <= b[2]
                    /\ b[1] <= original_timings[p][1][2]
                    /\ original_timings[p][1][2] <= b[2]

\* C2: the total_time of every record is the summed duration of the intervals
\* that were in the protocol-timing table when the iteration began and that
\* lie within the span of the iteration.
C2_TotalTimeIsTimeInSpan ==
    \A i \in 1..Len(all_statistics) :
        all_statistics[i].total_time = DurationInIteration(timings_at_start[i], i - 1)

\* A record of an iteration with an attributed interval and an unused one.
C2_Witness ==
    /\ stats_pc = "returned"
    /\ \E i \in 1..Len(all_statistics) :
          /\ AttributedTime(i) > 0
          /\ unused_times[i] > 0

\* C3: the total_time of every record is the unused protocol time of its
\* iteration plus the attributed time of the two layers.
C3_Conservation ==
    \A i \in 1..Len(all_statistics) :
        all_statistics[i].total_time = unused_times[i] + AttributedTime(i)

\* A record with time attributed to each of the two layers.
C3_Witness ==
    \E i \in 1..Len(all_statistics) :
        /\ all_statistics[i].time_per_approach[SimulationLayer] > 0
        /\ all_statistics[i].time_per_approach[ReweightingLayer] > 0
        /\ all_statistics[i].total_time
               = unused_times[i] + AttributedTime(i)

\* C4: the attributed time of every record does not exceed the summed
\* duration of the intervals handed to the aggregation that lie within the
\* span of the iteration.
C4_NoDoubleCounting ==
    \A i \in 1..Len(all_statistics) :
        AttributedTime(i) <= DurationInIteration(original_timings, i - 1)

\* How often interval x of protocol p is counted in the total_time of record
\* number i: its occurrences in the table as the iteration began, when x lies
\* within the span of the iteration (by C2 these make up the total_time).
CountedIn(p, x, i) ==
    IF /\ IterationStartTime(batch_timings, i - 1) <= x[1]
       /\ x[1] <= IterationEndTime(batch_timings, i - 1)
       /\ IterationStartTime(batch_timings, i - 1) <= x[2]
       /\ x[2] <= IterationEndTime(batch_timings, i - 1)
    THEN Count(Lookup(timings_at_start[i], p, <<>>), x)
    ELSE 0

RECURSIVE CountedUpTo(_, _, _)
\* How often x is counted over the records 1..i.
CountedUpTo(p, x, i) ==
    IF i = 0 THEN 0 ELSE CountedIn(p, x, i) + CountedUpTo(p, x, i - 1)

\* C22: over all records, an interval of the protocol-timing table is counted
\* in a total_time no more often than it occurs in the table handed to the
\* aggregation: no interval is counted in the total_time of two iterations.
C22_CountedInOneIteration ==
    \A p \in DOMAIN original_timings :
        \A x \in Elements(original_timings[p]) :
            CountedUpTo(p, x, Len(all_statistics)) <= Count(original_timings[p], x)

(***************************************************************************)
(* Properties of main.                                                     *)
(***************************************************************************)
\* C13: when the aggregation returns for a driver log with N request markers,
\* it returns N records, and the batch table holds the batches of iteration
\* i - 1 for record number i.
C13_OneRecordPerIteration ==
    stats_pc = "returned" =>
        /\ Len(all_statistics) = current_iteration + 1
        /\ \A i \in 1..Len(all_statistics) : (i - 1) \in DOMAIN batch_timings

\* C14: the output file is written only when the batch parse, the protocol
\* parse and the aggregation of every iteration have returned, and it then
\* holds the records returned; a run in which any of the three has aborted
\* has written nothing.
C14_NoPartialResults ==
    /\ written =>
          /\ driver_pc = "returned"
          /\ worker_pc = "returned"
          /\ stats_pc = "returned"
          /\ iteration = n_iterations
          /\ output = all_statistics
    /\ ("aborted" \in {driver_pc, worker_pc, stats_pc}) =>
          /\ ~written
          /\ output = <<>>

\* The aggregation has aborted in a later iteration, after the record of an
\* earlier iteration had been appended.
C14_Witness ==
    /\ stats_pc = "aborted"
    /\ iteration >= 1
    /\ Len(all_statistics) >= 1
    /\ ~written

\* The one property of a run of one iteration references protocol p, and the
\* worker logs gave one interval, of p, that lies between the launch of the
\* property's batch less a second and its finish plus a second.
SingleReferencedInterval(p) ==
    /\ n_iterations = 1
    /\ n_properties = 1
    /\ Len(group_order) = 1
    /\ p \in batch_protocols[group_order[1][1]][group_order[1][2]]
    /\ DOMAIN original_timings = {p}
    /\ Len(original_timings[p]) = 1
    /\ HasEntry(batch_start_times, 0, group_order[1][1], group_order[1][2])
    /\ HasEntry(batch_end_times, 0, group_order[1][1], group_order[1][2])
    /\ LET lo == batch_start_times[0][group_order[1][1]][group_order[1][2]] - 1
           hi == batch_end_times[0][group_order[1][1]][group_order[1][2]] + 1
       IN  /\ lo <= original_timings[p][1][1] /\ original_timings[p][1][1] <= hi
           /\ lo <= original_timings[p][1][2] /\ original_timings[p][1][2] <= hi

\* C15: in a run of one iteration with a single property whose provenance
\* references the only protocol interval, the interval lying within the
\* padded interval of the property's batch, the record written counts the
\* property once under its fidelity, attributes the duration of the interval
\* to that fidelity and nothing to the other, and its total_time is that
\* duration: no time is unused.
C15_EndToEndAttribution ==
    \A p \in ProtocolIds :
        (written /\ SingleReferencedInterval(p)) =>
            /\ Len(output) = 1
            /\ \A l \in RealLayers :
                  /\ output[1].time_per_approach[l] =
                         (IF l = group_order[1][1]
                          THEN original_timings[p][1][2] - original_timings[p][1][1]
                          ELSE 0)
                  /\ output[1].approach_counts[l] =
                         (IF l = group_order[1][1] THEN 1 ELSE 0)
            /\ output[1].total_time =
                   original_timings[p][1][2] - original_timings[p][1][1]
            /\ unused_times = <<0>>

\* Such a run has written its record, and the interval begins before the
\* launch of the batch: it lies within the batch by the margin alone.
C15_Witness ==
    /\ written
    /\ \E p \in ProtocolIds :
          /\ SingleReferencedInterval(p)
          /\ group_order[1][1] = SimulationLayer
          /\ original_timings[p][1][1] < batch_start_times[0][SimulationLayer][group_order[1][2]]
          /\ original_timings[p][1][2] > original_timings[p][1][1]

(***************************************************************************)
(* Properties of the worker-log scan.                                      *)
(***************************************************************************)
\* The protocol ids of the current log with a recorded start and no recorded end.
StartedWithoutEnd == (DOMAIN protocol_start_times) \ (DOMAIN protocol_end_times)

\* C12: an accepted "Executing P" line records the time of the line as the
\* start of P and P as the open protocol; while P has no recorded end that
\* start stays as it is; and the end of the log appends to the list of every
\* such P exactly one interval, from that start to the first line's time plus
\* the worker lifetime.
C12_OpenProtocolClosure ==
    [][/\ \A stamp \in 0..MaxWorkerTime, p \in ProtocolIds :
             (ExecutingLine(stamp, p) /\ protocol_started = NoId) =>
                 /\ protocol_started' = p
                 /\ p \in DOMAIN protocol_start_times'
                 /\ protocol_start_times'[p] =
                        (IF stamp < initial_time THEN stamp + DayLen ELSE stamp)
       /\ \A p \in StartedWithoutEnd :
             /\ (worker_pc = "scan" /\ worker_pc' = "scan") =>
                    /\ p \in DOMAIN protocol_start_times'
                    /\ protocol_start_times'[p] = protocol_start_times[p]
                    /\ (p \in DOMAIN protocol_end_times' \/ protocol_started' = p)
             /\ EndOfWorkerLog =>
                    Lookup(per_protocol_timings', p, <<>>) =
                        Append(Lookup(per_protocol_timings, p, <<>>),
                               <<protocol_start_times[p], initial_time + WorkerLifetime>>)
      ]_vars

\* The second log has ended with a protocol that was opened and has no end,
\* and the protocol has an interval of the first log as well.
C12_Witness ==
    /\ worker_pc = "open"
    /\ n_files = 2
    /\ file_lines >= 2
    /\ \E p \in StartedWithoutEnd :
          /\ protocol_started = p
          /\ p \in DOMAIN per_protocol_timings
          /\ Len(per_protocol_timings[p]) = 2
          /\ per_protocol_timings[p][2] = <<protocol_start_times[p], worker_close_time>>

\* C18: a close line whose protocol id is not the open protocol, the case that
\* no protocol is open included, changes neither the open slot nor a recorded
\* start or end time.
C18_MismatchedClosesIgnored ==
    [][\A stamp \in 0..MaxWorkerTime, p \in ProtocolIds :
          (CloseLine(stamp, p) /\ protocol_started # p) =>
              UNCHANGED <<protocol_started, protocol_start_times,
                          protocol_end_times>>]_vars

\* C19: the open slot holds no or one protocol id and is empty when a log is
\* opened; an "Executing P" line read while the slot is empty puts P in the
\* slot and records a start for P alone; one read while a protocol is open
\* changes neither the slot nor a start or end time; and a slot that holds a
\* protocol changes only by being emptied with an end recorded for that
\* protocol.
C19_AtMostOneOpenProtocol ==
    [][/\ protocol_started' \in ProtocolIds \cup {NoId}
       /\ \A first \in 0..MaxWorkerTime, modified_time \in 0..MaxWorkerTime :
             OpenWorkerLog(first, modified_time) => protocol_started' = NoId
       /\ \A stamp \in 0..MaxWorkerTime, p \in ProtocolIds :
             ExecutingLine(stamp, p) =>
                 IF protocol_started = NoId
                 THEN /\ protocol_started' = p
                      /\ DOMAIN protocol_start_times' = DOMAIN protocol_start_times \cup {p}
                      /\ \A q \in DOMAIN protocol_start_times \ {p} :
                             protocol_start_times'[q] = protocol_start_times[q]
                      /\ protocol_end_times' = protocol_end_times
                 ELSE UNCHANGED <<protocol_started, protocol_start_times,
                                  protocol_end_times>>
       /\ (worker_pc = "scan" /\ worker_pc' = "scan" /\ protocol_started # NoId
             /\ protocol_started' # protocol_started) =>
                 /\ protocol_started' = NoId
                 /\ protocol_started \in DOMAIN protocol_end_times'
      ]_vars

\* In the second log a protocol is open, it alone has a start, and a further
\* line has been read since it was opened.
C19_Witness ==
    /\ worker_pc = "scan"
    /\ n_files = 1
    /\ file_lines = MaxWorkerLines
    /\ protocol_started # NoId
    /\ DOMAIN protocol_start_times = {protocol_started}
    /\ DOMAIN protocol_end_times = {}
    /\ protocol_start_times[protocol_started] = initial_time

\* A timestamp of a worker-log line as the scan resolves it.
ResolvedStamp(stamp) == IF stamp < initial_time THEN stamp + DayLen ELSE stamp

\* C21: the list of a protocol id grows only at the end of a log, and then by
\* one interval at most: for an id with a recorded start, the interval from
\* that start to the recorded end of the id, or to the first line's time plus
\* the worker lifetime when no end is recorded. The recorded start is the time
\* of the last accepted "Executing" line, the recorded end that of the last
\* recorded close line, and no list is longer than the number of logs read.
C21_OneIntervalPerIdAndFile ==
    [][/\ \A p \in ProtocolIds :
             /\ Len(Lookup(per_protocol_timings', p, <<>>)) <= n_files'
             /\ Lookup(per_protocol_timings', p, <<>>) =
                    IF EndOfWorkerLog /\ p \in DOMAIN protocol_start_times
                    THEN Append(Lookup(per_protocol_timings, p, <<>>),
                                <<protocol_start_times[p],
                                  IF p \in DOMAIN protocol_end_times
                                  THEN protocol_end_times[p]
                                  ELSE initial_time + WorkerLifetime>>)
                    ELSE Lookup(per_protocol_timings, p, <<>>)
       /\ \A stamp \in 0..MaxWorkerTime, p \in ProtocolIds :
             /\ (ExecutingLine(stamp, p) /\ protocol_started = NoId) =>
                    protocol_start_times' =
                        Put(protocol_start_times, p, ResolvedStamp(stamp))
             /\ (CloseLine(stamp, p) /\ protocol_started \in {NoId, p}) =>
                    protocol_end_times' =
                        Put(protocol_end_times, p, ResolvedStamp(stamp))
      ]_vars

\* A log of three lines has ended and has added one interval to the list of
\* a protocol id that it opened after a close of that id had been recorded.
C21_Witness ==
    /\ worker_pc = "open"
    /\ n_files = 1
    /\ file_lines = 3
    /\ \E p \in (DOMAIN protocol_start_times) \cap (DOMAIN protocol_end_times) :
          /\ protocol_started = p
          /\ protocol_start_times[p] > protocol_end_times[p]
          /\ p \in DOMAIN per_protocol_timings
          /\ per_protocol_timings[p] =
                 <<<<protocol_start_times[p], protocol_end_times[p]>>>>

\* C5: every interval appended to a protocol id's list ends strictly later
\* than it starts.
C5_ProtocolIntervalsValid ==
    \A p \in DOMAIN per_protocol_timings :
        \A i \in 1..Len(per_protocol_timings[p]) :
            per_protocol_timings[p][i][2] > per_protocol_timings[p][i][1]

=============================================================================
